---- MODULE Spec2Model ----
(***************************************************************************)
(* Model of src/app.py, the "X Algorithm Pipeline Simulator".              *)
(*                                                                         *)
(* The script is a Streamlit page: every user interaction re-executes it   *)
(* from line 1.  One execution binds WEIGHTS, reads the widgets, and, when *)
(* the run button was pressed on a non-empty text, builds a PostCandidate  *)
(* and sends it through four stage functions.                              *)
(*                                                                         *)
(* Text is a sequence of characters; a character is a one-letter string,   *)
(* or "U+XXXX" for a character outside ASCII.                              *)
(*                                                                         *)
(* Python floats are modelled as exact decimal fixed-point numbers:        *)
(*   weights and engagement scores   in units of 1/10      (0.5  is 5),    *)
(*   the base potential              in units of 1/10^4    (1.0  is 10^4), *)
(*   the final score                 in units of 1/10^5    (12.0 is 12*10^5)*)
(* Every product the code forms is exact in these units: the base score is *)
(* 1.0 times at most four one-decimal factors.  IEEE rounding is not       *)
(* modelled.                                                               *)
(***************************************************************************)
EXTENDS Integers, Sequences, FiniteSets, TLC

(***************************************************************************)
(* Fixed-point units                                                       *)
(***************************************************************************)
BaseUnit == 10 * 10 * 10 * 10        \* base_score = 1.0  (line 89)
FinalUnit == 10 * BaseUnit           \* one whole point of final_score

\* x *= f, where f is given in tenths and x in any unit
Times(x, f) == (x * f) \div 10

(***************************************************************************)
(* WEIGHTS (lines 6-13), in tenths                                         *)
(***************************************************************************)
WeightTable ==
  [like |-> 5, retweet |-> 10, reply |-> 135, image |-> 20, video |-> 20,
   link |-> -10]

(***************************************************************************)
(* Characters and str methods                                              *)
(***************************************************************************)
UpperLetters ==
  <<"A","B","C","D","E","F","G","H","I","J","K","L","M",
    "N","O","P","Q","R","S","T","U","V","W","X","Y","Z">>
LowerLetters ==
  <<"a","b","c","d","e","f","g","h","i","j","k","l","m",
    "n","o","p","q","r","s","t","u","v","w","x","y","z">>
Digits == {"0","1","2","3","4","5","6","7","8","9"}

\* the CJK characters of the two Japanese keywords (all alphanumeric for \w)
Kanji == {"U+7A3C", "U+3052", "U+308B", "U+7121", "U+6599", "U+914D", "U+5E03"}

\* the fullwidth question mark of line 106
FullwidthQuestion == "U+FF1F"

\* re's \w on str patterns: Unicode alphanumerics and the underscore
IsWord(c) ==
  \/ \E i \in 1..26 : c = UpperLetters[i] \/ c = LowerLetters[i]
  \/ c \in Digits
  \/ c = "_"
  \/ c \in Kanji

\* str.lower() on one character
LowerChar(c) ==
  IF \E i \in 1..26 : c = UpperLetters[i]
  THEN LowerLetters[CHOOSE i \in 1..26 : c = UpperLetters[i]]
  ELSE c

\* str.lower()
lower(text) == [i \in 1..Len(text) |-> LowerChar(text[i])]

\* word in text
Contains(text, word) ==
  \E i \in 0..(Len(text) - Len(word)) : SubSeq(text, i + 1, i + Len(word)) = word

\* text[i:].startswith(word), i counted from 1
StartsAt(text, i, word) ==
  /\ i + Len(word) - 1 <= Len(text)
  /\ SubSeq(text, i, i + Len(word) - 1) = word

(***************************************************************************)
(* re.findall(r'#\w+', text)  (line 65).  A match starts at every "#" that *)
(* is followed by a word character and runs to the end of that run of word *)
(* characters; "#" is no word character, so no match swallows the start of *)
(* another and the leftmost non-overlapping matches are all of them.       *)
(* A match is given as <<first index, last index>>.                        *)
(***************************************************************************)
\* index of the last character of the run of word characters starting at i
WordRunEnd(text, i) ==
  CHOOSE j \in i..Len(text) :
    /\ \A k \in i..j : IsWord(text[k])
    /\ (j = Len(text) \/ ~IsWord(text[j + 1]))

FindHashtags(text) ==
  { <<i, WordRunEnd(text, i + 1)>> :
      i \in { k \in 1..(Len(text) - 1) : text[k] = "#" /\ IsWord(text[k + 1]) } }

(***************************************************************************)
(* re.findall(r'http[s]?://', text)  (line 99).  No match contains an "h"  *)
(* after its first character, so matches cannot overlap either.            *)
(***************************************************************************)
Http == <<"h","t","t","p">>
SchemeSep == <<":","/","/">>

FindUrls(text) ==
  { i \in 1..Len(text) :
      \/ StartsAt(text, i, Http \o SchemeSep)
      \/ StartsAt(text, i, Http \o <<"s">> \o SchemeSep) }

(***************************************************************************)
(* Log lines: the message, and the value an f-string puts into it          *)
(***************************************************************************)
Line(msg) == [msg |-> msg, arg |-> 0]
LineArg(msg, v) == [msg |-> msg, arg |-> v]

(***************************************************************************)
(* class PostCandidate (lines 19-27)                                       *)
(***************************************************************************)
ConstructorFields ==
  {"text", "has_media", "is_premium", "follower_count", "flags",
   "score_breakdown", "final_score"}

PostCandidate(text, has_media, is_premium, follower_count) ==
  [text |-> text, has_media |-> has_media, is_premium |-> is_premium,
   follower_count |-> follower_count, flags |-> <<>>, score_breakdown |-> <<>>,
   final_score |-> 0]

\* post.name = value, for a name the object may not have yet
SetAttr(post, name, value) ==
  [f \in DOMAIN post \cup {name} |-> IF f = name THEN value ELSE post[f]]

(***************************************************************************)
(* stage_1_candidate_sources (lines 29-47)                                 *)
(***************************************************************************)
\* variant: the follower threshold is inclusive
stage_1_inclusive(post) ==
  IF post.is_premium \/ post.follower_count >= 500
  THEN [status |-> "PASS", log |-> <<Line("PhoenixRetrieval")>>,
        source_type |-> "Global Candidate (Phoenix Retrieval)", post |-> post]
  ELSE [status |-> "PASS", log |-> <<Line("ThunderOnly")>>,
        source_type |-> "In-Network Only (Thunder)", post |-> post]

stage_1_candidate_sources(post) ==
  IF post.is_premium \/ post.follower_count > 500
  THEN [status |-> "PASS", log |-> <<Line("PhoenixRetrieval")>>,
        source_type |-> "Global Candidate (Phoenix Retrieval)", post |-> post]
  ELSE [status |-> "PASS", log |-> <<Line("ThunderOnly")>>,
        source_type |-> "In-Network Only (Thunder)", post |-> post]

(***************************************************************************)
(* stage_2_filtering_pre_scoring (lines 49-79)                             *)
(***************************************************************************)
spam_keywords ==
  << <<"U+7A3C", "U+3052", "U+308B">>,
     <<"U+7121", "U+6599", "U+914D", "U+5E03">>,
     <<"g","i","v","e","a","w","a","y">>,
     <<"d","m"," ","m","e">> >>

\* variant: the hashtag rule is evaluated before the keyword rule
stage_2_hashtags_first(post) ==
  LET hashtags == FindHashtags(post.text) IN
  IF Cardinality(hashtags) > 5
  THEN [status |-> "DROP", log |-> <<LineArg("SpamFilter", Cardinality(hashtags))>>,
        post |-> post]
  ELSE IF \E k \in 1..Len(spam_keywords) : Contains(lower(post.text), spam_keywords[k])
  THEN [status |-> "DROP", log |-> <<Line("MutedKeyword")>>, post |-> post]
  ELSE IF Len(post.text) < 5 /\ ~post.has_media
  THEN [status |-> "WARNING", log |-> <<Line("LowQuality")>>, post |-> post]
  ELSE [status |-> "PASS", log |-> <<Line("FilteringPassed")>>, post |-> post]

\* variant: five hashtags are already too many
stage_2_five_tags(post) ==
  LET hashtags == FindHashtags(post.text) IN
  IF \E k \in 1..Len(spam_keywords) : Contains(lower(post.text), spam_keywords[k])
  THEN [status |-> "DROP", log |-> <<Line("MutedKeyword")>>, post |-> post]
  ELSE IF Cardinality(hashtags) >= 5
  THEN [status |-> "DROP", log |-> <<LineArg("SpamFilter", Cardinality(hashtags))>>,
        post |-> post]
  ELSE IF Len(post.text) < 5 /\ ~post.has_media
  THEN [status |-> "WARNING", log |-> <<Line("LowQuality")>>, post |-> post]
  ELSE [status |-> "PASS", log |-> <<Line("FilteringPassed")>>, post |-> post]

\* variant: the short-text rule records a flag on the post
stage_2_sets_flag(post) ==
  LET hashtags == FindHashtags(post.text) IN
  IF \E k \in 1..Len(spam_keywords) : Contains(lower(post.text), spam_keywords[k])
  THEN [status |-> "DROP", log |-> <<Line("MutedKeyword")>>, post |-> post]
  ELSE IF Cardinality(hashtags) > 5
  THEN [status |-> "DROP", log |-> <<LineArg("SpamFilter", Cardinality(hashtags))>>,
        post |-> post]
  ELSE IF Len(post.text) < 5 /\ ~post.has_media
  THEN [status |-> "WARNING", log |-> <<Line("LowQuality")>>,
        post |-> SetAttr(post, "flags", Append(post.flags, "low_quality"))]
  ELSE [status |-> "PASS", log |-> <<Line("FilteringPassed")>>, post |-> post]

stage_2_filtering_pre_scoring(post) ==
  LET hashtags == FindHashtags(post.text) IN
  IF \E k \in 1..Len(spam_keywords) : Contains(lower(post.text), spam_keywords[k])
  THEN [status |-> "DROP", log |-> <<Line("MutedKeyword")>>, post |-> post]
  ELSE IF Cardinality(hashtags) > 5
  THEN [status |-> "DROP", log |-> <<LineArg("SpamFilter", Cardinality(hashtags))>>,
        post |-> post]
  ELSE IF Len(post.text) < 5 /\ ~post.has_media
  THEN [status |-> "WARNING", log |-> <<Line("LowQuality")>>, post |-> post]
  ELSE [status |-> "PASS", log |-> <<Line("FilteringPassed")>>, post |-> post]

(***************************************************************************)
(* stage_3_scoring (lines 81-119); W is the module-level WEIGHTS           *)
(***************************************************************************)
\* variant: the link penalty and the question boost exclude each other (elif)
stage_3_elif(post, W) ==
  LET s0 == BaseUnit
      media == post.has_media
      s1 == IF media THEN Times(s0, W.image) ELSE s0
      l1 == IF media THEN <<LineArg("MediaBoost", W.image)>> ELSE <<>>
      urls == FindUrls(post.text)
      link == urls # {}
      s2 == IF link THEN Times(s1, 5) ELSE s1
      l2 == IF link THEN l1 \o <<Line("LinkPenalty")>> ELSE l1
      question == ~link /\ (Contains(post.text, <<"?">>)
                              \/ Contains(post.text, <<FullwidthQuestion>>))
      s3 == IF question THEN Times(s2, 12) ELSE s2
      l3 == IF question THEN l2 \o <<Line("ConversationStarter")>> ELSE l2
      long == Len(post.text) > 140 /\ post.is_premium
      s4 == IF long THEN Times(s3, 11) ELSE s3
      l4 == IF long THEN l3 \o <<Line("LongformBoost")>> ELSE l3
  IN [base_score |-> s4, log |-> l4,
      post |-> SetAttr(post, "base_potential", s4), weights |-> W]

\* variant: the media boost is written into the weight table
stage_3_writes_weights(post, W) ==
  LET s0 == BaseUnit
      media == post.has_media
      W1 == IF media THEN [W EXCEPT !.image = Times(W.image, W.image)] ELSE W
      s1 == IF media THEN Times(s0, W.image) ELSE s0
      l1 == IF media THEN <<LineArg("MediaBoost", W.image)>> ELSE <<>>
      urls == FindUrls(post.text)
      link == urls # {}
      s2 == IF link THEN Times(s1, 5) ELSE s1
      l2 == IF link THEN l1 \o <<Line("LinkPenalty")>> ELSE l1
      question == Contains(post.text, <<"?">>)
                    \/ Contains(post.text, <<FullwidthQuestion>>)
      s3 == IF question THEN Times(s2, 12) ELSE s2
      l3 == IF question THEN l2 \o <<Line("ConversationStarter")>> ELSE l2
      long == Len(post.text) > 140 /\ post.is_premium
      s4 == IF long THEN Times(s3, 11) ELSE s3
      l4 == IF long THEN l3 \o <<Line("LongformBoost")>> ELSE l3
  IN [base_score |-> s4, log |-> l4,
      post |-> SetAttr(post, "base_potential", s4), weights |-> W1]

stage_3_scoring(post, W) ==
  LET s0 == BaseUnit
      media == post.has_media
      s1 == IF media THEN Times(s0, W.image) ELSE s0
      l1 == IF media THEN <<LineArg("MediaBoost", W.image)>> ELSE <<>>
      urls == FindUrls(post.text)
      link == urls # {}
      s2 == IF link THEN Times(s1, 5) ELSE s1
      l2 == IF link THEN l1 \o <<Line("LinkPenalty")>> ELSE l1
      question == Contains(post.text, <<"?">>)
                    \/ Contains(post.text, <<FullwidthQuestion>>)
      s3 == IF question THEN Times(s2, 12) ELSE s2
      l3 == IF question THEN l2 \o <<Line("ConversationStarter")>> ELSE l2
      long == Len(post.text) > 140 /\ post.is_premium
      s4 == IF long THEN Times(s3, 11) ELSE s3
      l4 == IF long THEN l3 \o <<Line("LongformBoost")>> ELSE l3
  IN [base_score |-> s4, log |-> l4,
      post |-> SetAttr(post, "base_potential", s4), weights |-> W]

(***************************************************************************)
(* stage_4_filtering_visibility (lines 121-138)                            *)
(***************************************************************************)
\* variant: a score of exactly 10 is limited too
stage_4_inclusive(post, final_score) ==
  IF final_score <= 10 * FinalUnit
  THEN [status |-> "LIMITED", log |-> <<Line("LowScore")>>, post |-> post]
  ELSE [status |-> "SHOW", log |-> <<Line("HighVisibility")>>, post |-> post]

stage_4_filtering_visibility(post, final_score) ==
  IF final_score < 10 * FinalUnit
  THEN [status |-> "LIMITED", log |-> <<Line("LowScore")>>, post |-> post]
  ELSE [status |-> "SHOW", log |-> <<Line("HighVisibility")>>, post |-> post]

\* the rank message of lines 238-244
RankTier(final_score) ==
  IF final_score > 100 * FinalUnit THEN "Ranked High"
  ELSE IF final_score > 30 * FinalUnit THEN "Ranked Mid"
  ELSE "Ranked Low"

\* variant: the reply and repost weights are exchanged
ScoreVal_swapped(likes, replies, reposts, W) ==
  (likes * W.like) + (replies * W.retweet) + (reposts * W.reply)

\* score_val of lines 211-213, in tenths
ScoreVal(likes, replies, reposts, W) ==
  (likes * W.like) + (replies * W.reply) + (reposts * W.retweet)

\* variant: a warning ends the run as a drop does
AfterFiltering_strict(status) == IF status # "PASS" THEN "dropped" ELSE "scoring"

\* the branch of lines 200-202: where the run goes after filtering
AfterFiltering(status) == IF status = "DROP" THEN "dropped" ELSE "scoring"

\* variant: the text is not looked at
RunRequested_any(btn, text) == btn

\* the condition of line 166 (a str is truthy when it is not empty)
RunRequested(btn, text) == btn /\ text # <<>>

(***************************************************************************)
(* Input values the widgets are given                                      *)
(***************************************************************************)
MaxTags == 7        \* texts carry 0..MaxTags hashtags

Rep(c, n) == [i \in 1..n |-> c]

RECURSIVE Tags(_, _)
\* h hashtags "#a", each followed by sep
Tags(h, sep) == IF h = 0 THEN <<>> ELSE <<"#", "a">> \o sep \o Tags(h - 1, sep)

\* s filled with dots up to n characters
PadTo(s, n) == IF n > Len(s) THEN s \o Rep(".", n - Len(s)) ELSE s

KeywordForms ==
  { spam_keywords[1], spam_keywords[2], spam_keywords[3], spam_keywords[4],
    <<"G","i","v","e","A","w","a","y">>,
    <<"D","M"," ","M","E">>,
    <<"x">> \o spam_keywords[3] \o <<"x">>,
    <<"g","i","v","e"," ","a","w","a","y">>,
    <<"d","m","m","e">> }

KeywordTexts ==
  { k \o t : k \in KeywordForms, t \in {<<>>, Tags(MaxTags, <<" ">>)} }

TagTexts ==
  { Tags(h, sep) : h \in 0..MaxTags, sep \in {<<>>, <<" ">>} }
    \cup { Tags(5, <<" ">>) \o t :
             t \in { <<"#">>, <<"#", " ", "x">>, <<"#", "#", "_">>, <<"#", "1">>,
                     <<"#", FullwidthQuestion>>, <<"#", "U+7A3C">> } }

UrlForms ==
  { <<>>, Http \o SchemeSep, Http \o <<"s">> \o SchemeSep,
    <<"h","t","t","p",":","/">>, <<"H","T","T","P",":","/","/">> }

QuestionForms == { <<>>, <<"?">>, <<FullwidthQuestion>> }

ScoreTexts ==
  { <<"a", "b", "c", "d", "e">> \o u \o q : u \in UrlForms, q \in QuestionForms }
    \cup { PadTo(u \o q, n) : u \in {<<>>, Http \o SchemeSep},
                              q \in {<<>>, <<"?">>}, n \in {140, 141} }

LengthTexts == { Rep("x", n) : n \in {0, 1, 4, 5} }

\* "Test post?"
ExampleTexts == { <<"T","e","s","t"," ","p","o","s","t","?">> }

Texts == KeywordTexts \cup TagTexts \cup ScoreTexts \cup LengthTexts \cup ExampleTexts

Followers == {0, 500, 501}
Likes == {0, 10, 20}
Replies == {0, 10}
Reposts == {0, 30, 100}

AllInputs ==
  [text |-> Texts, media |-> BOOLEAN, premium |-> BOOLEAN, followers |-> Followers,
   likes |-> Likes, replies |-> Replies, reposts |-> Reposts]

\* the input sets of the specification with fairness: every text that a
\* filter rule decides, few accounts and counts
OrderInputs ==
  [text |-> KeywordTexts \cup TagTexts \cup LengthTexts \cup ExampleTexts,
   media |-> BOOLEAN, premium |-> BOOLEAN, followers |-> {500},
   likes |-> {10}, replies |-> {0, 10}, reposts |-> {0}]

\* the smaller input sets of the repeated-run specification
RepeatInputs ==
  [text |-> { <<>>, <<"h", "i", "?">>, spam_keywords[3], Tags(6, <<>>),
              <<"T","e","s","t"," ","p","o","s","t","?">> },
   media |-> BOOLEAN, premium |-> BOOLEAN, followers |-> {500, 501},
   likes |-> {10, 20}, replies |-> {0, 10}, reposts |-> {0}]

(***************************************************************************)
(* State                                                                   *)
(***************************************************************************)
VARIABLES
  WEIGHTS,            \* the module-level dict of line 6
  input_text, input_has_media, input_premium, input_followers,
  sim_likes, sim_replies, sim_reposts,      \* widget values, lines 148-160
  run_btn,            \* line 162: True only in the run the click triggers
  post,               \* the names the pipeline block binds: <<>> while
  s1_status, s1_log, s1_type,               \* unbound, <<value>> once bound
  s2_status, s2_log,
  base_potential, s3_log, score_val, final_score,
  s4_status, s4_log,
  screen,             \* what the block has shown: badges, errors, rank
  pc,                 \* where the script is
  trace,              \* the stage functions called in this execution
  prev                \* history: the last completed run, <<>> when not kept

inputs == <<input_text, input_has_media, input_premium, input_followers,
            sim_likes, sim_replies, sim_reposts>>
locals == <<post, s1_status, s1_log, s1_type, s2_status, s2_log,
            base_potential, s3_log, score_val, final_score, s4_status, s4_log>>
outputs == <<s1_status, s1_log, s1_type, s2_status, s2_log, base_potential,
             s3_log, score_val, final_score, s4_status, s4_log, screen>>
vars == <<WEIGHTS, inputs, run_btn, locals, screen, pc, trace, prev>>

Unbound == <<>>
Ended == pc \in {"idle", "done", "dropped"}

\* the widgets' default values, lines 148-160, and no click yet
Init ==
  /\ WEIGHTS = WeightTable
  /\ input_text = <<>>
  /\ input_has_media = TRUE
  /\ input_premium = FALSE
  /\ input_followers = 500
  /\ sim_likes = 10
  /\ sim_replies = 0
  /\ sim_reposts = 0
  /\ run_btn = FALSE
  /\ post = Unbound
  /\ s1_status = Unbound /\ s1_log = Unbound /\ s1_type = Unbound
  /\ s2_status = Unbound /\ s2_log = Unbound
  /\ base_potential = Unbound /\ s3_log = Unbound
  /\ score_val = Unbound /\ final_score = Unbound
  /\ s4_status = Unbound /\ s4_log = Unbound
  /\ screen = <<>>
  /\ pc = "idle"
  /\ trace = <<>>
  /\ prev = <<>>

(***************************************************************************)
(* One execution of the script from line 1 to line 167 (or 246-247) with   *)
(* the given widget values.  keep says whether the history variable may    *)
(* record the run that has just ended (it may also keep an older one).     *)
(***************************************************************************)
Rerun(text, media, premium, followers, likes, replies, reposts, btn, keep) ==
  /\ Ended
  /\ WEIGHTS' = WeightTable
  /\ input_text' = text
  /\ input_has_media' = media
  /\ input_premium' = premium
  /\ input_followers' = followers
  /\ sim_likes' = likes
  /\ sim_replies' = replies
  /\ sim_reposts' = reposts
  /\ run_btn' = btn
  /\ s1_status' = Unbound /\ s1_log' = Unbound /\ s1_type' = Unbound
  /\ s2_status' = Unbound /\ s2_log' = Unbound
  /\ base_potential' = Unbound /\ s3_log' = Unbound
  /\ score_val' = Unbound /\ final_score' = Unbound
  /\ s4_status' = Unbound /\ s4_log' = Unbound
  /\ trace' = <<>>
  /\ prev' \in IF keep /\ pc \in {"done", "dropped"}
               THEN {prev, << [inputs |-> inputs, outputs |-> outputs] >>}
               ELSE {prev}
  /\ IF RunRequested(btn, text)
     THEN /\ post' = << PostCandidate(text, media, premium, followers) >>
          /\ screen' = <<>>
          /\ pc' = "sourcing"
     ELSE IF btn
     THEN /\ post' = Unbound
          /\ screen' = << "InputMissing" >>
          /\ pc' = "idle"
     ELSE /\ post' = Unbound
          /\ screen' = <<>>
          /\ pc' = "idle"

\* the user changes one widget: the script runs again, run_btn is False
EditText(D, keep) ==
  \E t \in D.text :
    Rerun(t, input_has_media, input_premium, input_followers,
          sim_likes, sim_replies, sim_reposts, FALSE, keep)

EditFlags(D, keep) ==
  \E m \in D.media, p \in D.premium :
    Rerun(input_text, m, p, input_followers,
          sim_likes, sim_replies, sim_reposts, FALSE, keep)

EditFollowers(D, keep) ==
  \E f \in D.followers :
    Rerun(input_text, input_has_media, input_premium, f,
          sim_likes, sim_replies, sim_reposts, FALSE, keep)

EditCounts(D, keep) ==
  \E l \in D.likes, r \in D.replies, s \in D.reposts :
    Rerun(input_text, input_has_media, input_premium, input_followers,
          l, r, s, FALSE, keep)

\* the user clicks the run button
PressRun(keep) ==
  Rerun(input_text, input_has_media, input_premium, input_followers,
        sim_likes, sim_replies, sim_reposts, TRUE, keep)

(***************************************************************************)
(* The pipeline block, lines 169-244, one action per stage                 *)
(***************************************************************************)
Stage1 ==
  /\ pc = "sourcing"
  /\ LET r == stage_1_candidate_sources(post[1]) IN
       /\ s1_status' = <<r.status>>
       /\ s1_log' = <<r.log>>
       /\ s1_type' = <<r.source_type>>
       /\ post' = <<r.post>>
       /\ screen' = Append(screen,
                      IF r.source_type = "Global Candidate (Phoenix Retrieval)"
                      THEN "GLOBAL CANDIDATE" ELSE "LOCAL CANDIDATE")
  /\ trace' = Append(trace, "sourcing")
  /\ pc' = "filtering"
  /\ UNCHANGED <<WEIGHTS, inputs, run_btn, s2_status, s2_log, base_potential,
                 s3_log, score_val, final_score, s4_status, s4_log, prev>>

Stage2 ==
  /\ pc = "filtering"
  /\ LET r == stage_2_filtering_pre_scoring(post[1])
         badge == IF r.status = "DROP" THEN "DROPPED"
                  ELSE IF r.status = "WARNING" THEN "WARNING" ELSE "PASSED"
     IN
       /\ s2_status' = <<r.status>>
       /\ s2_log' = <<r.log>>
       /\ post' = <<r.post>>
       /\ pc' = AfterFiltering(r.status)
       /\ screen' = IF pc' = "dropped"
                    THEN screen \o <<badge, "Discarded">>
                    ELSE Append(screen, badge)
  /\ trace' = Append(trace, "filtering")
  /\ UNCHANGED <<WEIGHTS, inputs, run_btn, s1_status, s1_log, s1_type,
                 base_potential, s3_log, score_val, final_score, s4_status,
                 s4_log, prev>>

Stage3 ==
  /\ pc = "scoring"
  /\ LET r == stage_3_scoring(post[1], WEIGHTS) IN
       /\ base_potential' = <<r.base_score>>
       /\ s3_log' = <<r.log>>
       /\ post' = <<r.post>>
       /\ WEIGHTS' = r.weights
       /\ score_val' = <<ScoreVal(sim_likes, sim_replies, sim_reposts, r.weights)>>
       /\ final_score' = <<score_val'[1] * r.base_score>>
  /\ trace' = Append(trace, "scoring")
  /\ pc' = "visibility"
  /\ UNCHANGED <<inputs, run_btn, s1_status, s1_log, s1_type, s2_status, s2_log,
                 s4_status, s4_log, screen, prev>>

Stage4 ==
  /\ pc = "visibility"
  /\ LET r == stage_4_filtering_visibility(post[1], final_score[1]) IN
       /\ s4_status' = <<r.status>>
       /\ s4_log' = <<r.log>>
       /\ post' = <<r.post>>
  /\ screen' = Append(screen, RankTier(final_score[1]))
  /\ trace' = Append(trace, "visibility")
  /\ pc' = "done"
  /\ UNCHANGED <<WEIGHTS, inputs, run_btn, s1_status, s1_log, s1_type, s2_status,
                 s2_log, base_potential, s3_log, score_val, final_score, prev>>

Next ==
  \/ EditText(AllInputs, FALSE)
  \/ EditFlags(AllInputs, FALSE)
  \/ EditFollowers(AllInputs, FALSE)
  \/ EditCounts(AllInputs, FALSE)
  \/ PressRun(FALSE)
  \/ Stage1
  \/ Stage2
  \/ Stage3
  \/ Stage4

Spec == Init /\ [][Next]_vars

NextOrder ==
  \/ EditText(OrderInputs, FALSE)
  \/ EditFlags(OrderInputs, FALSE)
  \/ EditFollowers(OrderInputs, FALSE)
  \/ EditCounts(OrderInputs, FALSE)
  \/ PressRun(FALSE)
  \/ Stage1
  \/ Stage2
  \/ Stage3
  \/ Stage4

\* the script is straight-line code: a stage that is due is executed
FairSpec ==
  /\ Init
  /\ [][NextOrder]_vars
  /\ WF_vars(Stage1) /\ WF_vars(Stage2) /\ WF_vars(Stage3) /\ WF_vars(Stage4)

NextRepeat ==
  \/ EditText(RepeatInputs, TRUE)
  \/ EditFlags(RepeatInputs, TRUE)
  \/ EditFollowers(RepeatInputs, TRUE)
  \/ EditCounts(RepeatInputs, TRUE)
  \/ PressRun(TRUE)
  \/ Stage1
  \/ Stage2
  \/ Stage3
  \/ Stage4

SpecRepeat == Init /\ [][NextRepeat]_vars

(***************************************************************************)
(* Properties                                                              *)
(***************************************************************************)
StageOrder == <<"sourcing", "filtering", "scoring", "visibility">>
RankMessages == {"Ranked High", "Ranked Mid", "Ranked Low"}
ShownRank == { screen[i] : i \in 1..Len(screen) } \cap RankMessages

\* the text holds a banned keyword, letter case aside
HasBannedKeyword(text) ==
  \E k \in 1..Len(spam_keywords) :
    \E off \in 0..(Len(text) - Len(spam_keywords[k])) :
      \A j \in 1..Len(spam_keywords[k]) :
        LowerChar(text[off + j]) = spam_keywords[k][j]

\* the number of "#" that a word character follows
NumHashtags(text) ==
  Cardinality({ i \in 1..Len(text) :
                  text[i] = "#" /\ i < Len(text) /\ IsWord(text[i + 1]) })

HasUrlScheme(text) ==
  \/ \E i \in 1..(Len(text) - 6) :
       SubSeq(text, i, i + 6) = <<"h","t","t","p",":","/","/">>
  \/ \E i \in 1..(Len(text) - 7) :
       SubSeq(text, i, i + 7) = <<"h","t","t","p","s",":","/","/">>

HasQuestionMark(text) ==
  \E i \in 1..Len(text) : text[i] \in {"?", FullwidthQuestion}

----------------------------------------------------------------------------
\* C1, state part: the stage functions called so far are a prefix of
\* sourcing, filtering, scoring, visibility; a run that ended DROPPED called
\* the first two only, on a DROP status, and bound no base potential, final
\* score, visibility status or rank; a run that ended DONE called all four on
\* a status other than DROP; a WARNING is given exactly to a short text
\* without media that no hard filter dropped.
C1_Order ==
  /\ Len(trace) <= 4
  /\ trace = SubSeq(StageOrder, 1, Len(trace))
  /\ pc = "dropped" =>
       /\ trace = <<"sourcing", "filtering">>
       /\ s2_status = <<"DROP">>
       /\ base_potential = Unbound /\ score_val = Unbound
       /\ final_score = Unbound /\ s4_status = Unbound /\ s4_log = Unbound
       /\ ShownRank = {}
  /\ pc = "done" =>
       /\ trace = StageOrder
       /\ s2_status \in {<<"PASS">>, <<"WARNING">>}
       /\ final_score # Unbound /\ s4_status # Unbound
       /\ Cardinality(ShownRank) = 1
  /\ s2_status = <<"DROP">> => pc = "dropped"
  /\ Len(trace) >= 3 => s2_status \in {<<"PASS">>, <<"WARNING">>}
  /\ s2_status \in {<<"PASS">>, <<"WARNING">>} =>
       (s2_status = <<"WARNING">> <=> (Len(input_text) < 5 /\ ~input_has_media))

\* C1: for every run started with non-empty text the stages execute in the
\* fixed order, each at most once; scoring and visibility execute iff the
\* filtering status is not DROP; a DROP ends the run in DROPPED, which only
\* a new execution of the script leaves; a WARNING run goes on to DONE; and
\* every started run ends DONE or DROPPED.
C1_StagesInOrder ==
  /\ []C1_Order
  /\ [][pc = "dropped" => trace' = <<>>]_vars
  /\ (pc = "sourcing") ~> (pc \in {"done", "dropped"})
  /\ (s2_status \in {<<"WARNING">>, <<"PASS">>}) ~> (pc = "done")

\* a short text without media got its WARNING and the run reached DONE
C1_Witness ==
  /\ pc = "done"
  /\ s2_status = <<"WARNING">>
  /\ Len(input_text) < 5

----------------------------------------------------------------------------
\* C2: once filtering has run on a text that holds a banned keyword, the
\* status is DROP, the log is the one muted-keyword line, and the run has
\* halted before scoring, whatever the hashtags, the length and the media
\* flag are.
C2_BannedKeywordDrops ==
  (s2_status # Unbound /\ HasBannedKeyword(input_text)) =>
    /\ s2_status = <<"DROP">>
    /\ s2_log = << <<Line("MutedKeyword")>> >>
    /\ pc = "dropped"
    /\ trace = <<"sourcing", "filtering">>
    /\ base_potential = Unbound /\ final_score = Unbound

\* an upper-case keyword in a text that also has more than five hashtags
C2_Witness ==
  /\ s2_status = <<"DROP">>
  /\ HasBannedKeyword(input_text)
  /\ ~Contains(input_text, spam_keywords[4])
  /\ NumHashtags(input_text) > 5

----------------------------------------------------------------------------
\* C3: once sourcing has run, the source type is the global one iff the
\* account is premium or has more than 500 followers, and the in-network
\* one otherwise; the status is PASS.
C3_GlobalIffPremiumOrOver500 ==
  s1_type # Unbound =>
    /\ s1_status = <<"PASS">>
    /\ s1_type \in { <<"Global Candidate (Phoenix Retrieval)">>,
                     <<"In-Network Only (Thunder)">> }
    /\ s1_type = <<"Global Candidate (Phoenix Retrieval)">>
         <=> (input_premium \/ input_followers > 500)
    /\ (~input_premium /\ input_followers = 500)
         => s1_type = <<"In-Network Only (Thunder)">>
    /\ (~input_premium /\ input_followers = 501)
         => s1_type = <<"Global Candidate (Phoenix Retrieval)">>

\* a non-premium account with exactly 500 followers was labelled local
C3_Witness ==
  /\ s1_type = <<"In-Network Only (Thunder)">>
  /\ ~input_premium
  /\ input_followers = 500

----------------------------------------------------------------------------
\* C4: once filtering has run on a text without banned keyword, the status
\* is DROP iff the text has more than 5 hashtags, and the log of such a drop
\* is the one spam-filter line with the count.
C4_DropIffMoreThan5Hashtags ==
  (s2_status # Unbound /\ ~HasBannedKeyword(input_text)) =>
    /\ s2_status = <<"DROP">> <=> NumHashtags(input_text) > 5
    /\ NumHashtags(input_text) > 5 =>
         s2_log = << <<LineArg("SpamFilter", NumHashtags(input_text))>> >>

\* a text with exactly 5 hashtags passed the filter
C4_Witness ==
  /\ s2_status \in {<<"PASS">>, <<"WARNING">>}
  /\ NumHashtags(input_text) = 5
  /\ pc = "done"

----------------------------------------------------------------------------
\* the four factors of C5, in tenths (10 stands for no factor)
MediaFactor == IF input_has_media THEN 20 ELSE 10
LinkFactor == IF HasUrlScheme(input_text) THEN 5 ELSE 10
QuestionFactor == IF HasQuestionMark(input_text) THEN 12 ELSE 10
LongformFactor == IF Len(input_text) > 140 /\ input_premium THEN 11 ELSE 10

\* C5: the base potential stage 3 returned is 1.0 times the factors whose
\* own condition holds: x2.0 media, x0.5 URL scheme, x1.2 question mark,
\* x1.1 text longer than 140 characters on a premium account.
C5_BasePotentialIsProductOfFactors ==
  base_potential # Unbound =>
    /\ base_potential[1] * 10 * 10 * 10 * 10
         = BaseUnit * MediaFactor * LinkFactor * QuestionFactor * LongformFactor
    /\ (input_has_media /\ HasQuestionMark(input_text)
          /\ ~HasUrlScheme(input_text) /\ Len(input_text) <= 140)
         => base_potential[1] * 10 = 24 * BaseUnit
    /\ (~input_has_media /\ ~HasQuestionMark(input_text)
          /\ ~HasUrlScheme(input_text) /\ ~input_premium)
         => base_potential[1] = BaseUnit

\* all four factors applied to one post: 2.0 x 0.5 x 1.2 x 1.1 = 1.32
C5_Witness ==
  /\ base_potential # Unbound
  /\ input_has_media /\ HasUrlScheme(input_text) /\ HasQuestionMark(input_text)
  /\ Len(input_text) > 140 /\ input_premium
  /\ base_potential[1] * 100 = 132 * BaseUnit

----------------------------------------------------------------------------
\* C6: the final score is (likes x 0.5 + replies x 13.5 + reposts x 1.0)
\* times the base potential stage 3 returned; 10 likes at base potential
\* 2.4 give 12.0, and 10 replies at base potential 1.0 give 135.
C6_FinalScoreFormula ==
  final_score # Unbound =>
    /\ base_potential # Unbound
    /\ final_score[1]
         = (sim_likes * 5 + sim_replies * 135 + sim_reposts * 10) * base_potential[1]
    /\ (sim_likes = 10 /\ sim_replies = 0 /\ sim_reposts = 0
          /\ base_potential[1] * 10 = 24 * BaseUnit)
         => final_score[1] = 12 * FinalUnit
    /\ (sim_likes = 0 /\ sim_replies = 10 /\ sim_reposts = 0
          /\ base_potential[1] = BaseUnit)
         => final_score[1] = 135 * FinalUnit

\* replies and reposts both count, at a base potential other than 1.0
C6_Witness ==
  /\ final_score # Unbound
  /\ sim_replies = 10 /\ sim_reposts = 30 /\ sim_likes = 10
  /\ base_potential[1] * 10 = 24 * BaseUnit
  /\ final_score[1] = 408 * FinalUnit

----------------------------------------------------------------------------
\* C7: once stage 4 has run, the visibility status is LIMITED iff the final
\* score is below 10 and SHOW otherwise, and the rank shown is high iff the
\* score is above 100, mid iff it is above 30 and at most 100, low iff it is
\* at most 30.
C7_VisibilityAndTier ==
  s4_status # Unbound =>
    /\ s4_status = <<"LIMITED">> <=> final_score[1] < 10 * FinalUnit
    /\ s4_status = <<"SHOW">> <=> final_score[1] >= 10 * FinalUnit
    /\ ShownRank = {"Ranked High"} <=> final_score[1] > 100 * FinalUnit
    /\ ShownRank = {"Ranked Mid"}
         <=> (final_score[1] > 30 * FinalUnit /\ final_score[1] <= 100 * FinalUnit)
    /\ ShownRank = {"Ranked Low"} <=> final_score[1] <= 30 * FinalUnit
    /\ final_score[1] = 12 * FinalUnit
         => (s4_status = <<"SHOW">> /\ ShownRank = {"Ranked Low"})
    /\ final_score[1] = 135 * FinalUnit => ShownRank = {"Ranked High"}

\* a final score of exactly 10 is shown
C7_Witness ==
  /\ s4_status = <<"SHOW">>
  /\ final_score = <<10 * FinalUnit>>
  /\ ShownRank = {"Ranked Low"}

----------------------------------------------------------------------------
\* C8: an execution with the button pressed on empty text shows the
\* input-missing error and nothing else: no post is built and no stage is
\* called; an execution without the button pressed builds and calls nothing.
C8_EmptyTextOnlyError ==
  /\ (run_btn /\ input_text = <<>>) =>
       /\ screen = <<"InputMissing">>
       /\ pc = "idle" /\ trace = <<>>
       /\ \A i \in 1..Len(locals) : locals[i] = Unbound
  /\ ~run_btn =>
       /\ screen = <<>>
       /\ pc = "idle" /\ trace = <<>>
       /\ \A i \in 1..Len(locals) : locals[i] = Unbound
  /\ (run_btn /\ input_text # <<>>) => (post # Unbound /\ pc # "idle")

\* the error is shown with the other inputs away from their defaults
C8_Witness ==
  /\ run_btn /\ input_text = <<>>
  /\ screen = <<"InputMissing">>
  /\ input_premium /\ ~input_has_media /\ input_followers = 501 /\ sim_replies = 10

----------------------------------------------------------------------------
\* C9 as stated: the post object is, after every stage, what the constructor
\* returned.
C9_PostUnchangedByStages ==
  post # Unbound =>
    post[1] = PostCandidate(input_text, input_has_media, input_premium,
                            input_followers)

\* C9, amended: no stage changes the value of a field the constructor set;
\* stages 1, 2 and 4 leave the object as it is, and stage 3 adds one
\* attribute, base_potential, holding the base score it returns.
C9_ConstructorFieldsKept ==
  post # Unbound =>
    /\ \A f \in ConstructorFields :
         post[1][f] = PostCandidate(input_text, input_has_media, input_premium,
                                    input_followers)[f]
    /\ DOMAIN post[1] = IF Len(trace) >= 3
                        THEN ConstructorFields \cup {"base_potential"}
                        ELSE ConstructorFields
    /\ Len(trace) >= 3 => post[1].base_potential = base_potential[1]

\* a whole run has ended and the post carries the added attribute
C9_Witness ==
  /\ pc = "done"
  /\ post # Unbound
  /\ "base_potential" \in DOMAIN post[1]
  /\ post[1].text = input_text

----------------------------------------------------------------------------
\* C10: a run that ends with the inputs of an earlier completed run has
\* that run's outputs (statuses, source type, log lines, base potential,
\* scores, what is shown), whatever ran in between; and WEIGHTS has its
\* initial contents in every state.
C10_SameInputsSameOutputs ==
  /\ WEIGHTS = WeightTable
  /\ (pc \in {"done", "dropped"} /\ prev # <<>> /\ prev[1].inputs = inputs)
       => prev[1].outputs = outputs

\* a second run on the inputs of a recorded run has reached DONE
C10_Witness ==
  /\ pc = "done"
  /\ prev # <<>>
  /\ prev[1].inputs = inputs
  /\ prev[1].outputs = outputs
  /\ final_score # Unbound
====
